---- MODULE Spec2Model ----
(***************************************************************************)
(* skimage/measure/_marching_cubes_lewiner.py: the marching-cubes wrapper. *)
(*                                                                         *)
(* Three specifications share the variables below.                         *)
(*   Spec       calls of marching_cubes and of _marching_cubes_lewiner     *)
(*   SpecLuts   threads calling _get_mc_luts concurrently                  *)
(*   SpecKernel the traversal of the compiled kernel (vertex cache)        *)
(*                                                                         *)
(* Numbers that Python holds as floats are held in half units: a level h   *)
(* stands for h/2, a step size s for s/2, so that 0.5*(min+max) and        *)
(* int(step_size) are computed exactly.  An optional value (None or a      *)
(* value) is a sequence of length 0 or 1.                                  *)
(***************************************************************************)
EXTENDS Integers, Sequences, FiniteSets, TLC

VARIABLES
    pc,          \* "idle": no call in progress; "done": a call has ended
    call,        \* the arguments of the last call
    result,      \* what that call did and how it ended
    THE_LUTS,    \* mcluts.THE_LUTS: <<>> while the attribute is absent
    built,       \* number of LutProvider objects constructed so far
    assigned,    \* number of assignments to mcluts.THE_LUTS so far
    tpc,         \* per thread: its position in _get_mc_luts
    tobj,        \* per thread: the LutProvider it has constructed, if any
    tret,        \* per thread: the objects its calls have returned
    tcalls,      \* per thread: number of calls it has started
    visited,     \* kernel: the cubes already processed
    cur,         \* kernel: the cube being processed, if any
    todo,        \* kernel: the triangles of its tiling not yet emitted
    tri,         \* kernel: vertex indices found so far for the next triangle
    cache,       \* kernel: the vertex cache, pairs <<EdgeID, vertex index>>
    vertexArray, \* kernel: the vertex array, in creation order
    faceArray    \* kernel: the triangle array, rows of three vertex indices

wrapperVars == <<pc, call, result>>
lutVars == <<THE_LUTS, built, assigned, tpc, tobj, tret, tcalls>>
kernelVars == <<visited, cur, todo, tri, cache, vertexArray, faceArray>>
vars == <<pc, call, result, THE_LUTS, built, assigned, tpc, tobj, tret, tcalls,
          visited, cur, todo, tri, cache, vertexArray, faceArray>>

---------------------------------------------------------------------------
(* Bounds of the model *)

MaxSample == 2     \* volume samples are drawn from 1..MaxSample
MaxStep == 1       \* step sizes are drawn from 0..MaxStep, in half units
NumThreads == 2    \* threads calling _get_mc_luts
MaxCalls == 2      \* calls of _get_mc_luts per thread
GridX == 2         \* the kernel traverses a row of GridX cubes

---------------------------------------------------------------------------
(* numpy helpers *)

RECURSIVE SeqMin(_)
SeqMin(s) ==
    IF Len(s) = 1 THEN s[1]
    ELSE LET m == SeqMin(Tail(s)) IN IF s[1] < m THEN s[1] ELSE m

RECURSIVE SeqMax(_)
SeqMax(s) ==
    IF Len(s) = 1 THEN s[1]
    ELSE LET m == SeqMax(Tail(s)) IN IF s[1] > m THEN s[1] ELSE m

RECURSIVE Size(_)
Size(shape) == IF shape = <<>> THEN 1 ELSE shape[1] * Size(Tail(shape))

\* np.fliplr on an (n, 3) array: every row is reversed.
fliplr(rows) == [i \in 1..Len(rows) |-> <<rows[i][3], rows[i][2], rows[i][1]>>]

\* faces.shape = -1, 3: the flat index array read as rows of three.
Reshape3(flat) ==
    [i \in 1..(Len(flat) \div 3) |-> <<flat[3*i - 2], flat[3*i - 1], flat[3*i]>>]

\* vertices * np.r_[spacing]: broadcast over rows, elementwise by column.
Scale(rows, spacing) ==
    [i \in 1..Len(rows) |->
        <<rows[i][1] * spacing[1], rows[i][2] * spacing[2], rows[i][3] * spacing[3]>>]

---------------------------------------------------------------------------
(* Inputs *)

\* An array filled with lo at odd and hi at even flat positions.
Fill(shape, lo, hi) ==
    [i \in 1..Size(shape) |-> IF i % 2 = 1 THEN lo ELSE hi]

ValidShape == <<2, 2, 2>>

Volumes ==
    {[isarray |-> FALSE, shape |-> ValidShape, data |-> Fill(ValidShape, 1, MaxSample)],
     [isarray |-> TRUE, shape |-> <<2, 2>>, data |-> Fill(<<2, 2>>, 1, MaxSample)],
     [isarray |-> TRUE, shape |-> <<1, 2, 2>>, data |-> Fill(<<1, 2, 2>>, 1, MaxSample)]}
    \cup {[isarray |-> TRUE, shape |-> ValidShape,
            data |-> Fill(ValidShape, r[1], r[2])] :
            r \in {q \in (1..MaxSample) \X (1..MaxSample) : q[1] <= q[2]}}

\* None, or a level in half units, from below every sample to above every sample.
Levels == {<<>>} \cup {<<h>> : h \in 1..(2 * MaxSample + 1)}

Spacings == {<<1, 1, 1>>, <<2, 3, 5>>, <<1, 1>>}

StepSizes == 0..(2 * MaxStep)

GradientDirections == {"descent", "ascent", "sideways"}

Methods == {"lewiner", "lorensen", "_lorensen", "marching"}

\* None, a mask of the valid shape, a mask of another shape.
Masks == {<<>>, <<[shape |-> ValidShape]>>, <<[shape |-> <<2, 2, 3>>]>>}

\* Truthy and falsy values of the single_mesh flag.
SingleMeshValues == 0..1

---------------------------------------------------------------------------
(* The compiled kernel, _marching_cubes_lewiner_cy: its outputs *)

\* A mesh as the kernel returns it: vertices and normals are rows of three,
\* faces is a flat array of 0-based vertex indices, three per triangle.
Mesh(v, f, n, val) == [vertices |-> v, faces |-> f, normals |-> n, values |-> val]

EmptyMesh == Mesh(<<>>, <<>>, <<>>, <<>>)

\* What _marching_cubes_lewiner_cy.marching_cubes may return: no surface, one
\* triangle, one degenerate triangle, a triangle and a degenerate one.
KernelOutputs ==
    {EmptyMesh,
     Mesh(<<<<1, 2, 3>>, <<4, 5, 6>>, <<7, 8, 9>>>>, <<0, 1, 2>>,
          <<<<1, 0, 2>>, <<0, 1, 3>>, <<2, 1, 0>>>>, <<1, 2, 3>>),
     Mesh(<<<<1, 2, 3>>, <<4, 5, 6>>>>, <<0, 0, 1>>,
          <<<<1, 0, 2>>, <<0, 1, 3>>>>, <<1, 2>>),
     Mesh(<<<<1, 2, 3>>, <<4, 5, 6>>, <<7, 8, 9>>, <<3, 2, 1>>>>, <<0, 1, 2, 1, 1, 3>>,
          <<<<1, 0, 2>>, <<0, 1, 3>>, <<2, 1, 0>>, <<0, 0, 1>>>>, <<1, 2, 3, 4>>)}

\* A triangle with two equal vertex indices has zero area.
IsDegenerate(f) == f[1] = f[2] \/ f[2] = f[3] \/ f[1] = f[3]

\* The 0-based vertex indices that the rows of faces refer to.
Referenced(faces) == {faces[i][j] : i \in 1..Len(faces), j \in 1..3}

\* The k-th smallest (k from 1) member of a set of naturals.
Nth(S, k) == CHOOSE x \in S : Cardinality({y \in S : y < x}) = k - 1

\* _marching_cubes_lewiner_cy.remove_degenerate_faces: drops the degenerate
\* triangles, then the vertices no triangle refers to, and renumbers the rest
\* densely, keeping their order.
remove_degenerate_faces(vertices, faces, normals, values) ==
    LET kept == SelectSeq(faces, LAMBDA f : ~IsDegenerate(f))
        used == Referenced(kept)
        new(i) == Cardinality({j \in used : j < i})
        pick(rows) == [k \in 1..Cardinality(used) |-> rows[Nth(used, k) + 1]]
    IN  [vertices |-> pick(vertices),
         faces |-> [i \in 1..Len(kept) |->
                        <<new(kept[i][1]), new(kept[i][2]), new(kept[i][3])>>],
         normals |-> pick(normals),
         values |-> pick(values)]

---------------------------------------------------------------------------
(* How a call ends *)

\* outcome: the exception raised, or "return".  level: the local level once
\* assigned.  luts: _get_mc_luts was called.  kernelCalls, classicCalls: the
\* arguments of each call of the kernel and of _marching_cubes_classic.
\* dispatched: the callee marching_cubes called.  body: the body of
\* _marching_cubes_lewiner started to run.  ret: the returned mesh.
Ended(outcome, level, luts, kernelCalls, ret) ==
    [outcome |-> outcome, level |-> level, luts |-> luts,
     kernelCalls |-> kernelCalls, classicCalls |-> <<>>,
     dispatched |-> "none", body |-> TRUE, ret |-> ret]

---------------------------------------------------------------------------
(* _marching_cubes_lewiner *)

\* The parameters of _marching_cubes_lewiner, none with a default.
LewinerParams ==
    <<"volume", "level", "spacing", "gradient_direction", "step_size",
      "allow_degenerate", "use_classic", "mask">>

\* float(level), int(step_size) and bool(x) on the half-unit numbers.
float(h) == h
int(s) == s \div 2
bool(x) == x # 0

\* The range test with the upper comparison lost.
LevelOutOfRange_NoUpper(h, vmin, vmax) == h < 2 * vmin

\* level < volume.min() or level > volume.max()
LevelOutOfRange(h, vmin, vmax) == h < 2 * vmin \/ h > 2 * vmax

\* 0.5 * (volume.min() + volume.max())
Midpoint(vmin, vmax) == vmin + vmax

\* not mask.shape == volume.shape, for a mask that is not None
MaskShapeMismatch(mask, volume) == mask # <<>> /\ mask[1].shape # volume.shape

\* From the emptiness test on the kernel's vertices to the return.
PostProcess(l, level, kargs, k) ==
    IF Len(k.vertices) = 0
    THEN Ended("RuntimeError: No surface found at the given iso value.",
               <<level>>, TRUE, <<kargs>>, <<>>)
    ELSE
    LET vertices == fliplr(k.vertices)
        normals == fliplr(k.normals)
        faces3 == Reshape3(k.faces)
        faces == IF l.gradient_direction = "descent" THEN fliplr(faces3) ELSE faces3
        scaled == IF l.spacing # <<1, 1, 1>> THEN Scale(vertices, l.spacing)
                  ELSE vertices
    IN  IF l.gradient_direction # "descent" /\ l.gradient_direction # "ascent"
        THEN Ended("ValueError: Incorrect input in gradient_direction",
                   <<level>>, TRUE, <<kargs>>, <<>>)
        ELSE IF l.allow_degenerate
        THEN Ended("return", <<level>>, TRUE, <<kargs>>,
                   <<Mesh(scaled, faces, normals, k.values)>>)
        ELSE Ended("return", <<level>>, TRUE, <<kargs>>,
                   <<remove_degenerate_faces(scaled, faces, normals, k.values)>>)

\* The body, run with the locals l that the call bound; kout is what the
\* kernel returns for these arguments.
_marching_cubes_lewiner(l, kout) ==
    LET volume == l.volume IN
    IF ~volume.isarray \/ Len(volume.shape) # 3
    THEN Ended("ValueError: Input volume should be a 3D numpy array.",
               <<>>, FALSE, <<>>, <<>>)
    ELSE IF volume.shape[1] < 2 \/ volume.shape[2] < 2 \/ volume.shape[3] < 2
    THEN Ended("ValueError: Input array must be at least 2x2x2.",
               <<>>, FALSE, <<>>, <<>>)
    ELSE
    LET vmin == SeqMin(volume.data)
        vmax == SeqMax(volume.data)
        level == IF l.level = <<>> THEN Midpoint(vmin, vmax) ELSE float(l.level[1])
        step_size == int(l.step_size)
    IN  IF l.level # <<>> /\ LevelOutOfRange(level, vmin, vmax)
        THEN Ended("ValueError: Surface level must be within volume data range.",
                   <<level>>, FALSE, <<>>, <<>>)
        ELSE IF Len(l.spacing) # 3
        THEN Ended("ValueError: spacing must consist of three floats.",
                   <<level>>, FALSE, <<>>, <<>>)
        ELSE IF step_size < 1
        THEN Ended("ValueError: step_size must be at least one.",
                   <<level>>, FALSE, <<>>, <<>>)
        ELSE IF "single_mesh" \notin DOMAIN l
        THEN \* single_mesh = bool(single_mesh): a local read before assignment
             Ended("UnboundLocalError: single_mesh", <<level>>, FALSE, <<>>, <<>>)
        ELSE IF MaskShapeMismatch(l.mask, volume)
        THEN Ended("ValueError: volume and mask must have the same shape.",
                   <<level>>, TRUE, <<>>, <<>>)
        ELSE PostProcess(l, level,
                         [volume |-> volume, level |-> level, L |-> "THE_LUTS",
                          step_size |-> step_size,
                          use_classic |-> bool(l.use_classic),
                          mask |-> l.mask,
                          single_mesh |-> bool(l.single_mesh)],
                         kout)

\* Python's binding of a call's arguments to params: npos positional
\* arguments and the keyword arguments kw (a record).  <<>> stands for a
\* TypeError: too many positionals, a keyword that is no parameter or is
\* already bound, or a parameter left without a value.
Bind(params, positional, kw) ==
    LET names == {params[i] : i \in 1..Len(params)}
        byPos == {params[i] : i \in 1..Len(params)} \ {params[i] : i \in (Len(positional) + 1)..Len(params)}
    IN  IF Len(positional) > Len(params)
           \/ ~(DOMAIN kw \subseteq names \ byPos)
           \/ names # byPos \cup DOMAIN kw
        THEN <<>>
        ELSE <<[n \in names |->
                 IF n \in DOMAIN kw THEN kw[n]
                 ELSE positional[CHOOSE i \in 1..Len(params) : params[i] = n]]>>

\* A call of _marching_cubes_lewiner with these arguments.
CallLewiner(positional, kw, kout) ==
    LET b == Bind(LewinerParams, positional, kw) IN
    IF b = <<>>
    THEN [Ended("TypeError: unexpected keyword argument", <<>>, FALSE, <<>>, <<>>)
            EXCEPT !.body = FALSE]
    ELSE _marching_cubes_lewiner(b[1], kout)

---------------------------------------------------------------------------
(* marching_cubes *)

\* The mask test lost: a mask is never seen.
MaskGiven_Never(mask) == FALSE

\* mask is not None
MaskGiven(mask) == mask # <<>>

\* The positional arguments marching_cubes hands to _marching_cubes_lewiner.
LewinerPositional(a) ==
    <<a.volume, a.level, a.spacing, a.gradient_direction, a.step_size,
      a.allow_degenerate>>

\* The dispatch on method; False and True are 0 and 1.
marching_cubes(a, kout) ==
    IF a.method = "lewiner"
    THEN [CallLewiner(LewinerPositional(a),
                      [use_classic |-> 0, mask |-> a.mask,
                       single_mesh |-> a.single_mesh], kout)
            EXCEPT !.dispatched = "_marching_cubes_lewiner"]
    ELSE IF a.method = "lorensen"
    THEN [CallLewiner(LewinerPositional(a),
                      [use_classic |-> 1, mask |-> a.mask,
                       single_mesh |-> a.single_mesh], kout)
            EXCEPT !.dispatched = "_marching_cubes_lewiner"]
    ELSE IF a.method = "_lorensen"
    THEN IF MaskGiven(a.mask)
         THEN [Ended("NotImplementedError: Parameter mask is not implemented",
                     <<>>, FALSE, <<>>, <<>>) EXCEPT !.body = FALSE]
         ELSE \* whatever _marching_cubes_classic returns or raises
              [Ended("_marching_cubes_classic", <<>>, FALSE, <<>>, <<>>)
                 EXCEPT !.body = FALSE,
                        !.dispatched = "_marching_cubes_classic",
                        !.classicCalls = <<<<a.volume, a.level, a.spacing,
                                             a.gradient_direction>>>>]
    ELSE [Ended("ValueError: method should be one of lewiner, lorensen or _lorensen",
                <<>>, FALSE, <<>>, <<>>) EXCEPT !.body = FALSE]

---------------------------------------------------------------------------
(* Spec: calls of the wrapper, one at a time *)

NoCall == [fn |-> "none"]
NoResult == [outcome |-> "none"]

LutInit ==
    /\ THE_LUTS = <<>>
    /\ built = 0
    /\ assigned = 0
    /\ tpc = [t \in 1..NumThreads |-> "idle"]
    /\ tobj = [t \in 1..NumThreads |-> <<>>]
    /\ tret = [t \in 1..NumThreads |-> <<>>]
    /\ tcalls = [t \in 1..NumThreads |-> 0]

WrapperInit ==
    /\ pc = "idle"
    /\ call = NoCall
    /\ result = NoResult

KernelInit ==
    /\ visited = {}
    /\ cur = <<>>
    /\ todo = <<>>
    /\ tri = <<>>
    /\ cache = {}
    /\ vertexArray = <<>>
    /\ faceArray = <<>>

Init == WrapperInit /\ LutInit /\ KernelInit

\* A caller calls marching_cubes(volume, level, spacing=..., ...).
Call_marching_cubes ==
    /\ pc = "idle"
    /\ \E volume \in Volumes, level \in Levels, spacing \in Spacings,
          gradient_direction \in GradientDirections, step_size \in StepSizes,
          allow_degenerate \in BOOLEAN, method \in Methods, mask \in Masks,
          single_mesh \in SingleMeshValues, kout \in KernelOutputs :
         LET a == [volume |-> volume, level |-> level, spacing |-> spacing,
                   gradient_direction |-> gradient_direction,
                   step_size |-> step_size,
                   allow_degenerate |-> allow_degenerate, method |-> method,
                   mask |-> mask, single_mesh |-> single_mesh]
         IN  /\ call' = [fn |-> "marching_cubes", args |-> a, kout |-> kout]
             /\ result' = marching_cubes(a, kout)
    /\ pc' = "done"
    /\ UNCHANGED <<lutVars, kernelVars>>

\* A caller calls _marching_cubes_lewiner with its eight parameters.
Call_marching_cubes_lewiner ==
    /\ pc = "idle"
    /\ \E volume \in Volumes, level \in Levels, spacing \in Spacings,
          gradient_direction \in GradientDirections, step_size \in StepSizes,
          allow_degenerate \in BOOLEAN, use_classic \in 0..1, mask \in Masks,
          kout \in KernelOutputs :
         LET a == [volume |-> volume, level |-> level, spacing |-> spacing,
                   gradient_direction |-> gradient_direction,
                   step_size |-> step_size,
                   allow_degenerate |-> allow_degenerate,
                   use_classic |-> use_classic, mask |-> mask]
         IN  /\ call' = [fn |-> "_marching_cubes_lewiner", args |-> a,
                         kout |-> kout]
             /\ result' = CallLewiner(<<volume, level, spacing, gradient_direction,
                                        step_size, allow_degenerate, use_classic,
                                        mask>>, <<>>, kout)
    /\ pc' = "done"
    /\ UNCHANGED <<lutVars, kernelVars>>

\* The call has ended; the caller may call again.
Return ==
    /\ pc = "done"
    /\ pc' = "idle"
    /\ call' = NoCall
    /\ result' = NoResult
    /\ UNCHANGED <<lutVars, kernelVars>>

Next ==
    \/ Call_marching_cubes
    \/ Call_marching_cubes_lewiner
    \/ Return

Spec == Init /\ [][Next]_vars

---------------------------------------------------------------------------
(* SpecLuts: threads in _get_mc_luts *)

Threads == 1..NumThreads

\* A thread calls _get_mc_luts.
Enter(t) ==
    /\ tpc[t] = "idle"
    /\ tcalls[t] < MaxCalls
    /\ tcalls' = [tcalls EXCEPT ![t] = @ + 1]
    /\ tpc' = [tpc EXCEPT ![t] = "hasattr"]
    /\ UNCHANGED <<THE_LUTS, built, assigned, tobj, tret>>
    /\ UNCHANGED <<wrapperVars, kernelVars>>

\* if not hasattr(mcluts, 'THE_LUTS')
Hasattr(t) ==
    /\ tpc[t] = "hasattr"
    /\ tpc' = [tpc EXCEPT ![t] = IF THE_LUTS = <<>> THEN "construct" ELSE "return"]
    /\ UNCHANGED <<THE_LUTS, built, assigned, tobj, tret, tcalls>>
    /\ UNCHANGED <<wrapperVars, kernelVars>>

\* _marching_cubes_lewiner_cy.LutProvider(...): a new object
Construct(t) ==
    /\ tpc[t] = "construct"
    /\ built' = built + 1
    /\ tobj' = [tobj EXCEPT ![t] = <<built + 1>>]
    /\ tpc' = [tpc EXCEPT ![t] = "assign"]
    /\ UNCHANGED <<THE_LUTS, assigned, tret, tcalls>>
    /\ UNCHANGED <<wrapperVars, kernelVars>>

\* mcluts.THE_LUTS = <the new object>
Assign(t) ==
    /\ tpc[t] = "assign"
    /\ THE_LUTS' = tobj[t]
    /\ assigned' = assigned + 1
    /\ tobj' = [tobj EXCEPT ![t] = <<>>]
    /\ tpc' = [tpc EXCEPT ![t] = "return"]
    /\ UNCHANGED <<built, tret, tcalls>>
    /\ UNCHANGED <<wrapperVars, kernelVars>>

\* return mcluts.THE_LUTS
ReturnLuts(t) ==
    /\ tpc[t] = "return"
    /\ tret' = [tret EXCEPT ![t] = Append(@, THE_LUTS[1])]
    /\ tpc' = [tpc EXCEPT ![t] = "idle"]
    /\ UNCHANGED <<THE_LUTS, built, assigned, tobj, tcalls>>
    /\ UNCHANGED <<wrapperVars, kernelVars>>

NextLuts ==
    \/ \E t \in Threads : Enter(t)
    \/ \E t \in Threads : Hasattr(t)
    \/ \E t \in Threads : Construct(t)
    \/ \E t \in Threads : Assign(t)
    \/ \E t \in Threads : ReturnLuts(t)

SpecLuts == Init /\ [][NextLuts]_vars

---------------------------------------------------------------------------
(* SpecKernel: the traversal of the kernel, vertex cache and mesh assembly *)

\* Edge number (0..11) to the relative x, y and z of its two end points.
EDGETORELATIVEPOSX ==
    <<<<0, 1>>, <<1, 1>>, <<1, 0>>, <<0, 0>>, <<0, 1>>, <<1, 1>>, <<1, 0>>, <<0, 0>>,
      <<0, 0>>, <<1, 1>>, <<1, 1>>, <<0, 0>>>>
EDGETORELATIVEPOSY ==
    <<<<0, 0>>, <<0, 1>>, <<1, 1>>, <<1, 0>>, <<0, 0>>, <<0, 1>>, <<1, 1>>, <<1, 0>>,
      <<0, 0>>, <<0, 0>>, <<1, 1>>, <<1, 1>>>>
EDGETORELATIVEPOSZ ==
    <<<<0, 0>>, <<0, 0>>, <<0, 0>>, <<0, 0>>, <<1, 1>>, <<1, 1>>, <<1, 1>>, <<1, 1>>,
      <<0, 1>>, <<0, 1>>, <<0, 1>>, <<0, 1>>>>

\* The grid point at end k (1 or 2) of local edge e of the cube at c.
EndPoint(c, e, k) ==
    <<c[1] + EDGETORELATIVEPOSX[e + 1][k],
      c[2] + EDGETORELATIVEPOSY[e + 1][k],
      c[3] + EDGETORELATIVEPOSZ[e + 1][k]>>

\* The physical edge: its two end points, in no order.
PhysicalEdge(c, e) == {EndPoint(c, e, 1), EndPoint(c, e, 2)}

Min2(a, b) == IF a < b THEN a ELSE b

\* A key that is not normalised: the visiting cube and its local edge number.
EdgeID_Local(c, e) == <<c[1], c[2], c[3], e>>

\* The canonical key of local edge e of cube c: the lower of its end points
\* and the axis it runs along.
EdgeID(c, e) ==
    LET p == EndPoint(c, e, 1)
        q == EndPoint(c, e, 2)
    IN  <<Min2(p[1], q[1]), Min2(p[2], q[2]), Min2(p[3], q[3]),
          IF p[1] # q[1] THEN 0 ELSE IF p[2] # q[2] THEN 1 ELSE 2>>

\* The cubes of the grid.
Cubes == {<<x, 0, 0>> : x \in 0..(GridX - 1)}

\* Tilings the Triangulator may emit for a cube: none, a corner cut at either
\* side, a quad of two triangles across the cube.
Tilings ==
    {<<>>,
     <<<<0, 3, 8>>>>,
     <<<<0, 1, 9>>>>,
     <<<<1, 9, 3>>, <<3, 9, 8>>>>}

\* The cache's entries for a key.
Cached(id) == {p \in cache : p[1] = id}

\* The sampler yields the next cube, in any order, and the triangulator its tiling.
VisitCube(c, tiling) ==
    /\ cur = <<>>
    /\ c \notin visited
    /\ cur' = <<c>>
    /\ todo' = tiling
    /\ tri' = <<>>
    /\ UNCHANGED <<visited, cache, vertexArray, faceArray, wrapperVars, lutVars>>

\* The next edge of the triangle being emitted: the cache is consulted, and a
\* vertex is created, with the next index, only when the key is absent.
ResolveEdge ==
    /\ cur # <<>>
    /\ todo # <<>>
    /\ Len(tri) < 3
    /\ LET e == todo[1][Len(tri) + 1]
           id == EdgeID(cur[1], e)
       IN  IF Cached(id) # {}
           THEN /\ tri' = Append(tri, (CHOOSE p \in Cached(id) : TRUE)[2])
                /\ UNCHANGED <<cache, vertexArray>>
           ELSE /\ vertexArray' = Append(vertexArray,
                                      [cube |-> cur[1], edge |-> e,
                                       index |-> Len(vertexArray)])
                /\ cache' = cache \cup {<<id, Len(vertexArray)>>}
                /\ tri' = Append(tri, Len(vertexArray))
    /\ UNCHANGED <<visited, cur, todo, faceArray, wrapperVars, lutVars>>

\* All three vertexArray exist: the triangle is appended.
AppendTriangle ==
    /\ cur # <<>>
    /\ Len(tri) = 3
    /\ faceArray' = Append(faceArray, tri)
    /\ todo' = Tail(todo)
    /\ tri' = <<>>
    /\ UNCHANGED <<visited, cur, cache, vertexArray, wrapperVars, lutVars>>

\* The cube's tiling is exhausted.
FinishCube ==
    /\ cur # <<>>
    /\ todo = <<>>
    /\ visited' = visited \cup {cur[1]}
    /\ cur' = <<>>
    /\ UNCHANGED <<todo, tri, cache, vertexArray, faceArray, wrapperVars, lutVars>>

NextKernel ==
    \/ \E c \in Cubes, tiling \in Tilings : VisitCube(c, tiling)
    \/ ResolveEdge
    \/ AppendTriangle
    \/ FinishCube

SpecKernel == Init /\ [][NextKernel]_vars

---------------------------------------------------------------------------
(* Properties of the inputs, as the claims word them *)

VolumeOK(a) ==
    /\ a.volume.isarray
    /\ Len(a.volume.shape) = 3
    /\ \A i \in 1..3 : a.volume.shape[i] >= 2

\* The level is absent, or lies in [min(volume), max(volume)].
LevelOK(a) ==
    \/ a.level = <<>>
    \/ /\ a.level[1] >= 2 * SeqMin(a.volume.data)
       /\ a.level[1] <= 2 * SeqMax(a.volume.data)

SpacingOK(a) == Len(a.spacing) = 3
StepOK(a) == a.step_size >= 2
MaskOK(a) == a.mask = <<>> \/ a.mask[1].shape = a.volume.shape
GradientOK(a) == a.gradient_direction \in {"descent", "ascent"}

\* The input has none of the validation-kind defects.
Valid(a) ==
    VolumeOK(a) /\ LevelOK(a) /\ SpacingOK(a) /\ StepOK(a) /\ MaskOK(a) /\ GradientOK(a)

ValidationErrors ==
    {"ValueError: Input volume should be a 3D numpy array.",
     "ValueError: Input array must be at least 2x2x2.",
     "ValueError: Surface level must be within volume data range.",
     "ValueError: spacing must consist of three floats.",
     "ValueError: step_size must be at least one.",
     "ValueError: volume and mask must have the same shape.",
     "ValueError: Incorrect input in gradient_direction"}

NoSurface == "RuntimeError: No surface found at the given iso value."

\* A call has ended that ran, or was meant to run, the Lewiner wrapper.
LewinerCallDone ==
    /\ pc = "done"
    /\ \/ call.fn = "_marching_cubes_lewiner"
       \/ call.fn = "marching_cubes" /\ call.args.method \in {"lewiner", "lorensen"}

AllDegenerate(flat) == \A i \in 1..Len(Reshape3(flat)) : IsDegenerate(Reshape3(flat)[i])

---------------------------------------------------------------------------
(* The claims *)

\* C1: in _marching_cubes_lewiner every input with a validation-kind defect
\* (volume not a 3-D array, a dimension < 2, level outside the value range,
\* spacing not of length 3, step_size < 1, mask shape differing from the
\* volume's, unsupported gradient_direction) ends with that validation
\* failure reported, and the kernel has not been called in that call.
C1_ValidationBeforeKernel ==
    (pc = "done" /\ call.fn = "_marching_cubes_lewiner" /\ ~Valid(call.args))
        => /\ result.outcome \in ValidationErrors
           /\ result.kernelCalls = <<>>

\* C2: once the level stage of _marching_cubes_lewiner is passed, and so
\* whenever the kernel is called, the level lies in [min(volume), max(volume)];
\* an explicit level outside that range ends the call with the range
\* ValueError and no kernel call; an absent level becomes the midpoint
\* 0.5*(min+max) and never raises the range failure.
C2_LevelInRange ==
    (pc = "done" /\ result.body /\ VolumeOK(call.args))
        => LET a == call.args
               vmin == SeqMin(a.volume.data)
               vmax == SeqMax(a.volume.data)
               rangeError == "ValueError: Surface level must be within volume data range."
           IN  /\ (a.level # <<>> /\ ~LevelOK(a))
                    => result.outcome = rangeError /\ result.kernelCalls = <<>>
               /\ a.level = <<>>
                    => result.outcome # rangeError /\ result.level = <<vmin + vmax>>
               /\ result.outcome # rangeError
                    => /\ Len(result.level) = 1
                       /\ result.level[1] >= 2 * vmin
                       /\ result.level[1] <= 2 * vmax
               /\ \A i \in 1..Len(result.kernelCalls) :
                    /\ result.kernelCalls[i].level >= 2 * vmin
                    /\ result.kernelCalls[i].level <= 2 * vmax

\* An absent level was replaced by the midpoint of a volume with min < max,
\* and the call went on past the level stage.
C2_Witness ==
    /\ pc = "done"
    /\ result.body
    /\ VolumeOK(call.args)
    /\ call.args.level = <<>>
    /\ SeqMin(call.args.volume.data) < SeqMax(call.args.volume.data)
    /\ result.level = <<SeqMin(call.args.volume.data) + SeqMax(call.args.volume.data)>>
    /\ result.outcome \notin ValidationErrors

\* C3: for method 'lewiner' and 'lorensen', marching_cubes forwards single_mesh
\* to _marching_cubes_lewiner, which accepts it; for every input that passes
\* validation the kernel is called once, with the caller's single_mesh as a
\* bool, and with use_classic False for 'lewiner' and True for 'lorensen'.
C3_SingleMeshForwarded ==
    (pc = "done" /\ call.fn = "marching_cubes"
       /\ call.args.method \in {"lewiner", "lorensen"} /\ Valid(call.args))
        => /\ Len(result.kernelCalls) = 1
           /\ result.kernelCalls[1].single_mesh = (call.args.single_mesh # 0)
           /\ result.kernelCalls[1].use_classic = (call.args.method = "lorensen")

\* C4: when the kernel produces zero vertices for a valid input, the call
\* ends with the 'no surface found' condition; no call returns a mesh whose
\* vertex array is empty.
C4_NoSurfaceReported ==
    LewinerCallDone
        => /\ (Valid(call.args) /\ call.kout.vertices = <<>>)
                => result.outcome = NoSurface
           /\ result.outcome = "return" => result.ret[1].vertices # <<>>

\* C5: the LutProvider behind _get_mc_luts is built at most once, also under
\* concurrent first calls: THE_LUTS is assigned at most once and every call
\* returns the same object.
C5_BuiltOnce ==
    /\ built <= 1
    /\ assigned <= 1
    /\ \A t \in Threads, u \in Threads :
         \A i \in 1..Len(tret[t]), j \in 1..Len(tret[u]) : tret[t][i] = tret[u][j]

\* C6: with allow_degenerate=False, when every triangle of the mesh is
\* degenerate, the call ends with the 'no surface found' condition and
\* returns no empty arrays.
C6_AllDegenerateReported ==
    (LewinerCallDone /\ Valid(call.args) /\ ~call.args.allow_degenerate
       /\ call.kout.vertices # <<>> /\ AllDegenerate(call.kout.faces))
        => result.outcome = NoSurface

\* C7: at every step of the traversal, in any order of cube visits, each
\* physical edge has at most one vertex and each EdgeID at most one index,
\* vertex indices follow creation order, and every index of every appended
\* triangle (and of the triangle being emitted) is in [0, vertex_count).
C7_VertexCache ==
    /\ \A p \in cache, q \in cache : p[1] = q[1] => p[2] = q[2]
    /\ \A i \in 1..Len(vertexArray), j \in 1..Len(vertexArray) :
         PhysicalEdge(vertexArray[i].cube, vertexArray[i].edge)
           = PhysicalEdge(vertexArray[j].cube, vertexArray[j].edge) => i = j
    /\ \A i \in 1..Len(vertexArray) :
         /\ vertexArray[i].index = i - 1
         /\ <<EdgeID(vertexArray[i].cube, vertexArray[i].edge), i - 1>> \in cache
    /\ Cardinality(cache) = Len(vertexArray)
    /\ \A i \in 1..Len(faceArray) :
         /\ Len(faceArray[i]) = 3
         /\ \A k \in 1..3 : faceArray[i][k] \in 0..(Len(vertexArray) - 1)
    /\ \A k \in 1..Len(tri) : tri[k] \in 0..(Len(vertexArray) - 1)

\* Both cubes of the row emitted one triangle each, and the two triangles
\* share the two vertices on the edges of the face between the cubes.
C7_Witness ==
    /\ visited = Cubes
    /\ Len(faceArray) = 2
    /\ Len(vertexArray) = 4
    /\ \E i \in 1..4, j \in 1..4 : vertexArray[i].cube # vertexArray[j].cube
    /\ Cardinality({faceArray[1][k] : k \in 1..3} \cap {faceArray[2][k] : k \in 1..3}) = 2

\* C8: gradient_direction controls only the winding: for a valid input with a
\* surface, 'descent' returns every face of the kernel reversed and 'ascent'
\* returns it as is, and vertices, normals and values do not depend on it.
C8_WindingOnly ==
    (LewinerCallDone /\ Valid(call.args) /\ call.args.allow_degenerate
       /\ call.kout.vertices # <<>>)
        => /\ result.outcome = "return"
           /\ result.ret[1].faces =
                IF call.args.gradient_direction = "descent"
                THEN fliplr(Reshape3(call.kout.faces))
                ELSE Reshape3(call.kout.faces)
           /\ result.ret[1].vertices = Scale(fliplr(call.kout.vertices), call.args.spacing)
           /\ result.ret[1].normals = fliplr(call.kout.normals)
           /\ result.ret[1].values = call.kout.values

\* C9: marching_cubes with method '_lorensen' and a mask raises
\* NotImplementedError and calls no algorithm; with '_lorensen' and no mask it
\* calls the classic algorithm with volume, level, spacing and
\* gradient_direction only; with 'lorensen' a mask is not rejected, the call
\* goes to _marching_cubes_lewiner; any other method raises ValueError and
\* calls neither algorithm.
C9_MethodDispatch ==
    (pc = "done" /\ call.fn = "marching_cubes")
        => LET a == call.args IN
           /\ (a.method = "_lorensen" /\ a.mask # <<>>)
                => /\ result.outcome = "NotImplementedError: Parameter mask is not implemented"
                   /\ result.dispatched = "none"
                   /\ result.classicCalls = <<>>
           /\ (a.method = "_lorensen" /\ a.mask = <<>>)
                => /\ result.dispatched = "_marching_cubes_classic"
                   /\ result.classicCalls =
                        <<<<a.volume, a.level, a.spacing, a.gradient_direction>>>>
                   /\ result.kernelCalls = <<>>
           /\ (a.method = "lorensen" /\ a.mask # <<>>)
                => /\ result.outcome # "NotImplementedError: Parameter mask is not implemented"
                   /\ result.dispatched = "_marching_cubes_lewiner"
                   /\ result.classicCalls = <<>>
           /\ a.method \notin {"lewiner", "lorensen", "_lorensen"}
                => /\ result.outcome = "ValueError: method should be one of lewiner, lorensen or _lorensen"
                   /\ result.dispatched = "none"
                   /\ result.kernelCalls = <<>>
                   /\ result.classicCalls = <<>>

\* marching_cubes was called with method '_lorensen' and a mask, and raised
\* NotImplementedError.
C9_Witness ==
    /\ pc = "done"
    /\ call.fn = "marching_cubes"
    /\ call.args.method = "_lorensen"
    /\ call.args.mask # <<>>
    /\ result.outcome = "NotImplementedError: Parameter mask is not implemented"
    /\ result.classicCalls = <<>>

\* C10: for a valid input with a surface, returned coordinate k of every
\* vertex is the kernel's coordinate 2-k times spacing[k]; normals are
\* axis-reversed and not scaled; values are unchanged.
C10_SpacingScalesAxis ==
    (LewinerCallDone /\ Valid(call.args) /\ call.args.allow_degenerate
       /\ call.kout.vertices # <<>>)
        => /\ result.outcome = "return"
           /\ Len(result.ret[1].vertices) = Len(call.kout.vertices)
           /\ \A i \in 1..Len(call.kout.vertices), k \in 1..3 :
                /\ result.ret[1].vertices[i][k]
                     = call.kout.vertices[i][4 - k] * call.args.spacing[k]
                /\ result.ret[1].normals[i][k] = call.kout.normals[i][4 - k]
           /\ result.ret[1].values = call.kout.values

====
